---- MODULE Spec2Model ----
(***************************************************************************)
(* A model of the analysis front end of the Nickel toolchain:              *)
(*   - the lexer of src/parser/lexer.rs, a pushdown automaton with a mode  *)
(*     stack and one character of look-ahead;                              *)
(*   - the linearization builder of lsp/nls/src/linearization.rs and its   *)
(*     finalization into a Completed linearization.                        *)
(* Characters are one-character strings, source text and slices are        *)
(* sequences of characters, and offsets are 0-based byte offsets (every    *)
(* character of the model's alphabets is one byte long).                   *)
(***************************************************************************)
EXTENDS Integers, Sequences, FiniteSets, TLC

VARIABLES
    input,       \* Lexer.input: the source text
    look_ahead,  \* Lexer.look_ahead / Lexer.chars: offset of the look-ahead
                 \* character, Len(input) when the look-ahead is None
    mode,        \* Lexer.mode
    mode_stack,  \* Lexer.mode_stack
    ret,         \* what the last call of next() returned
    calls,       \* the calls of next() so far: the state each found, what it
                 \* returned and the state it left
    ended,       \* how many times next() returned None
    lin,         \* BuildingResource.linearization / Completed.lin
    scope_map,   \* BuildingResource.scope / Completed.scope_mapping
    hosts,       \* the AnalysisHost values alive in the traversal
    id_mapping,  \* Completed.id_mapping
    phase        \* "building" or "completed" (the Linearization typestate)

lexvars == <<input, look_ahead, mode, mode_stack, ret, calls, ended>>
linvars == <<lin, scope_map, hosts, id_mapping, phase>>
vars == <<input, look_ahead, mode, mode_stack, ret, calls, ended,
          lin, scope_map, hosts, id_mapping, phase>>

-----------------------------------------------------------------------------
(* Bounds of the model.                                                    *)

\* longest source text over the whole alphabet
MaxLen == 4
\* most units ("  ${  {  }) following the opening "${ of a nested text
MaxUnits == 7
\* calls of next() made after it has returned None
MaxEnd == 2

-----------------------------------------------------------------------------
(* Characters.                                                             *)

DQ == "\""
BSL == "\\"
\* the backquote character, which a TLA+ string cannot hold
BQ == "backquote"
NoChar == ""

Letters ==
    { "a", "b", "c", "d", "e", "f", "g", "h", "i", "j", "k", "l", "m",
      "n", "o", "p", "q", "r", "s", "t", "u", "v", "w", "x", "y", "z",
      "A", "B", "C", "D", "E", "F", "G", "H", "I", "J", "K", "L", "M",
      "N", "O", "P", "Q", "R", "S", "T", "U", "V", "W", "X", "Y", "Z" }

Digits == { "0", "1", "2", "3", "4", "5", "6", "7", "8", "9" }

is_digit(chr) == chr \in Digits

is_ident_char(chr) == chr \in Digits \/ chr = "_" \/ chr \in Letters

is_ident_start(chr, la_chr) ==
    \/ chr \in Letters
    \/ chr = "_" /\ la_chr # NoChar /\ is_ident_char(la_chr)

is_op_char(chr) == chr \in { "+", "@", "=", "-", "<", ">", ".", "|", "#" }

is_whitespace(chr) == chr \in { "\t", "\n", "\r", " " }

is_num_start(chr, la_chr) ==
    IF chr = "-" THEN la_chr # NoChar /\ is_digit(la_chr) ELSE is_digit(chr)

\* an escape table without the escape of the interpolation marker
escape_char_undollared(chr) ==
    CASE chr = "'" -> "'"
      [] chr = DQ -> DQ
      [] chr = BSL -> BSL
      [] chr = "n" -> "\n"
      [] chr = "r" -> "\r"
      [] chr = "t" -> "\t"
      [] OTHER -> NoChar

\* NoChar stands for None
escape_char(chr) ==
    CASE chr = "'" -> "'"
      [] chr = DQ -> DQ
      [] chr = BSL -> BSL
      [] chr = "$" -> "$"
      [] chr = "n" -> "\n"
      [] chr = "r" -> "\r"
      [] chr = "t" -> "\t"
      [] OTHER -> NoChar

-----------------------------------------------------------------------------
(* Modes, results and the mode stack.                                      *)

ModeNormal == [tag |-> "Normal", index |-> 0]
ModeStr == [tag |-> "Str", index |-> 0]
ModeDollarBrace(index) == [tag |-> "DollarBrace", index |-> index]

\* Some(Ok((start, token, end))); text is the token's payload, if it has one
Ok(start, tok, text, end) ==
    [kind |-> "Ok", tok |-> tok, text |-> text, start |-> start, end |-> end]
\* Some(Err(error(at)))
Err(error, at) ==
    [kind |-> "Err", tok |-> error, text |-> <<>>, start |-> at, end |-> at]
\* None
EndOfSeq == [kind |-> "None", tok |-> "", text |-> <<>>, start |-> 0, end |-> 0]
\* a failed assert! or unwrap()
Panic(what) ==
    [kind |-> "Panic", tok |-> what, text |-> <<>>, start |-> 0, end |-> 0]
\* before the first call
NoCall == [kind |-> "NoCall", tok |-> "", text |-> <<>>, start |-> 0, end |-> 0]
\* UnexpectedEOF carries a list of descriptions and no offset
NoOffset == 0 - 1

\* A lexer state is [la, mode, stack]; a step result is [ret, st].
LexState(la, m, stack) == [la |-> la, mode |-> m, stack |-> stack]
Step(r, st) == [ret |-> r, st |-> st]

push_mode(st, m) ==
    [st EXCEPT !.stack = Append(st.stack, st.mode), !.mode = m]

\* pop_mode without the error of an empty stack
pop_mode_unchecked(st) ==
    IF st.stack # <<>>
    THEN [ok |-> TRUE,
          st |-> [st EXCEPT !.mode = st.stack[Len(st.stack)],
                            !.stack = SubSeq(st.stack, 1, Len(st.stack) - 1)]]
    ELSE [ok |-> TRUE, st |-> [st EXCEPT !.mode = ModeNormal]]

\* [ok, st]: ok is the Boolean pop_mode returns
pop_mode(st) ==
    IF st.stack # <<>>
    THEN [ok |-> TRUE,
          st |-> [st EXCEPT !.mode = st.stack[Len(st.stack)],
                            !.stack = SubSeq(st.stack, 1, Len(st.stack) - 1)]]
    ELSE [ok |-> FALSE, st |-> [st EXCEPT !.mode = ModeNormal]]

\* the look-ahead character of a state, NoChar for None
LookChar(inp, la) == IF la < Len(inp) THEN inp[la + 1] ELSE NoChar

\* consume(): the look-ahead moves one character on, and stays None at the end
consume(inp, st) ==
    [st EXCEPT !.la = IF st.la < Len(inp) THEN st.la + 1 ELSE st.la]

look_ahead_is(inp, st, chr) == LookChar(inp, st.la) = chr

\* the predicate take_while is handed, applied to a character
pred_holds(pred, chr) ==
    IF pred = "is_digit" THEN is_digit(chr)
    ELSE IF pred = "is_ident_char" THEN is_ident_char(chr)
    ELSE is_op_char(chr)

\* [end, slice, st]
take_while(inp, st, start, pred) ==
    LET stop == CHOOSE i \in st.la .. Len(inp) :
                    /\ i = Len(inp) \/ ~pred_holds(pred, inp[i + 1])
                    /\ \A j \in st.la .. (i - 1) : pred_holds(pred, inp[j + 1])
        end == IF stop < Len(inp) THEN stop
               ELSE IF st.la < Len(inp) THEN Len(inp)
               ELSE start + 1
    IN  [end |-> end,
         slice |-> SubSeq(inp, start + 1, end),
         st |-> [st EXCEPT !.la = stop]]

Keywords ==
    { <<<<"i", "f">>, "If">>,
      <<<<"t", "h", "e", "n">>, "Then">>,
      <<<<"e", "l", "s", "e">>, "Else">>,
      <<<<"f", "o", "r", "a", "l", "l">>, "Forall">>,
      <<<<"i", "n">>, "In">>,
      <<<<"l", "e", "t">>, "Let">>,
      <<<<"s", "w", "i", "t", "c", "h">>, "Switch">>,
      <<<<"t", "a", "g">>, "Tag">>,
      <<<<"f", "u", "n">>, "Fun">>,
      <<<<"i", "m", "p", "o", "r", "t">>, "Import">>,
      <<<<"t", "r", "u", "e">>, "True">>,
      <<<<"f", "a", "l", "s", "e">>, "False">>,
      <<<<"i", "s", "Z", "e", "r", "o">>, "IsZero">>,
      <<<<"i", "s", "N", "u", "m">>, "IsNum">>,
      <<<<"i", "s", "B", "o", "o", "l">>, "IsBool">>,
      <<<<"i", "s", "S", "t", "r">>, "IsStr">>,
      <<<<"i", "s", "F", "u", "n">>, "IsFun">>,
      <<<<"i", "s", "L", "i", "s", "t">>, "IsList">>,
      <<<<"b", "l", "a", "m", "e">>, "Blame">>,
      <<<<"c", "h", "n", "g", "P", "o", "l">>, "ChangePol">>,
      <<<<"p", "o", "l", "a", "r", "i", "t", "y">>, "Polarity">>,
      <<<<"g", "o", "D", "o", "m">>, "GoDom">>,
      <<<<"g", "o", "C", "o", "d", "o", "m">>, "GoCodom">>,
      <<<<"w", "r", "a", "p">>, "Wrap">>,
      <<<<"e", "m", "b", "e", "d">>, "Embed">>,
      <<<<"m", "a", "p", "R", "e", "c">>, "MapRec">>,
      <<<<"s", "e", "q">>, "Seq">>,
      <<<<"d", "e", "e", "p", "S", "e", "q">>, "DeepSeq">>,
      <<<<"h", "e", "a", "d">>, "Head">>,
      <<<<"t", "a", "i", "l">>, "Tail">>,
      <<<<"l", "e", "n", "g", "t", "h">>, "Length">>,
      <<<<"u", "n", "w", "r", "a", "p">>, "Unwrap">>,
      <<<<"h", "a", "s", "F", "i", "e", "l", "d">>, "HasField">>,
      <<<<"m", "a", "p">>, "Map">>,
      <<<<"e", "l", "e", "m", "A", "t">>, "ElemAt">>,
      <<<<"m", "e", "r", "g", "e">>, "Merge">> }

ParenKeywords ==
    { <<<<"A", "s", "s", "u", "m", "e">>, "Assume">>,
      <<<<"P", "r", "o", "m", "i", "s", "e">>, "Promise">>,
      <<<<"D", "e", "f", "a", "u", "l", "t">>, "Deflt">>,
      <<<<"C", "o", "n", "t", "r", "a", "c", "t">>, "Contract">>,
      <<<<"C", "o", "n", "t", "r", "a", "c", "t", "D", "e", "f", "a", "u", "l", "t">>, "ContractDeflt">>,
      <<<<"D", "o", "c", "s", "t", "r", "i", "n", "g">>, "Docstring">> }

BaseTypes ==
    { <<<<"D", "y", "n">>, "Type">>,
      <<<<"N", "u", "m">>, "Type">>,
      <<<<"B", "o", "o", "l">>, "Type">>,
      <<<<"S", "t", "r">>, "Type">>,
      <<<<"L", "i", "s", "t">>, "Type">> }

-----------------------------------------------------------------------------
(* The scanners.  Each takes the source text, the lexer state and the      *)
(* offset of the token's first character, and gives the result and the     *)
(* state it leaves.                                                        *)

identifier(inp, st, start) ==
    LET tw == take_while(inp, st, start, "is_ident_char")
        is_next_lparen == look_ahead_is(inp, tw.st, "(")
        paren == { k \in ParenKeywords : k[1] = tw.slice }
        plain == { k \in Keywords : k[1] = tw.slice }
        types == { k \in BaseTypes : k[1] = tw.slice }
    IN  IF paren # {} /\ is_next_lparen
        THEN Step(Ok(start, (CHOOSE k \in paren : TRUE)[2], <<>>, tw.end + 1),
                  consume(inp, tw.st))
        ELSE IF plain # {}
        THEN Step(Ok(start, (CHOOSE k \in plain : TRUE)[2], <<>>, tw.end), tw.st)
        ELSE IF types # {}
        THEN Step(Ok(start, "Type", tw.slice, tw.end), tw.st)
        ELSE Step(Ok(start, "Identifier", tw.slice, tw.end), tw.st)

\* str::parse::<f64>() on a slice made of an optional leading "-", digits and
\* at most one ".": it succeeds exactly when the slice holds a digit
parses_as_f64(num) == \E i \in 1 .. Len(num) : is_digit(num[i])

\* num_literal without the check of the character after the literal
num_literal_unchecked(inp, st, start) ==
    LET tw1 == take_while(inp, st, start, "is_digit")
        tw == IF look_ahead_is(inp, tw1.st, ".")
              THEN take_while(inp, consume(inp, tw1.st), start, "is_digit")
              ELSE tw1
    IN  IF parses_as_f64(tw.slice)
        THEN Step(Ok(start, "NumLiteral", tw.slice, tw.end), tw.st)
        ELSE Step(Panic("unwrap"), tw.st)

\* num_literal consuming the identifier character it reports
num_literal_skipping(inp, st, start) ==
    LET tw1 == take_while(inp, st, start, "is_digit")
        tw == IF look_ahead_is(inp, tw1.st, ".")
              THEN take_while(inp, consume(inp, tw1.st), start, "is_digit")
              ELSE tw1
        la_chr == LookChar(inp, tw.st.la)
    IN  IF la_chr # NoChar /\ is_ident_char(la_chr)
        THEN Step(Err("NumThenIdent", tw.st.la), consume(inp, tw.st))
        ELSE IF parses_as_f64(tw.slice)
        THEN Step(Ok(start, "NumLiteral", tw.slice, tw.end), tw.st)
        ELSE Step(Panic("unwrap"), tw.st)

num_literal(inp, st, start) ==
    LET tw1 == take_while(inp, st, start, "is_digit")
        tw == IF look_ahead_is(inp, tw1.st, ".")
              THEN take_while(inp, consume(inp, tw1.st), start, "is_digit")
              ELSE tw1
        la_chr == LookChar(inp, tw.st.la)
    IN  IF la_chr # NoChar /\ is_ident_char(la_chr)
        THEN Step(Err("NumThenIdent", tw.st.la), tw.st)
        ELSE IF parses_as_f64(tw.slice)
        THEN Step(Ok(start, "NumLiteral", tw.slice, tw.end), tw.st)
        ELSE Step(Panic("unwrap"), tw.st)

operator(inp, st, start) ==
    LET tw == take_while(inp, st, start, "is_op_char")
        op == tw.slice
        plain(tok) == Step(Ok(start, tok, <<>>, tw.end), tw.st)
    IN  IF op = <<".">> /\ look_ahead_is(inp, tw.st, "$")
        THEN Step(Ok(start, "DotDollar", <<>>, tw.end + 1), consume(inp, tw.st))
        ELSE IF op = <<".">> THEN plain("Dot")
        ELSE IF op = <<"-">> /\ look_ahead_is(inp, tw.st, "$")
        THEN Step(Ok(start, "MinusDollar", <<>>, tw.end + 1), consume(inp, tw.st))
        ELSE IF op = <<"=">> THEN plain("Equals")
        ELSE IF op = <<"-", ">">> THEN plain("SimpleArrow")
        ELSE IF op = <<"=", ">">> THEN plain("DoubleArrow")
        ELSE IF op = <<"<">> THEN plain("LAngleBracket")
        ELSE IF op = <<">">> THEN plain("RAngleBracket")
        ELSE IF op = <<"|">> THEN plain("Pipe")
        ELSE Step(Ok(start, "BinaryOp", op, tw.end), tw.st)

\* an interpolation start that is always deferred to the next call
interpolation_start_deferred(st, start, index, acc) ==
    Step(Ok(start, "StrLiteral", acc, index), push_mode(st, ModeDollarBrace(index)))

\* str_literal has consumed the "${" whose "$" is at offset index: the state
\* st follows the consume() of the "{"
interpolation_start(st, start, index, acc) ==
    IF acc = <<>>
    THEN Step(Ok(index, "DollarBrace", <<>>, index + 2), push_mode(st, ModeNormal))
    ELSE Step(Ok(start, "StrLiteral", acc, index),
              push_mode(st, ModeDollarBrace(index)))

\* the end of the input inside a string reported as an error
unterminated_error(st, start, eof, acc) == Step(Err("UnexpectedEOF", NoOffset), st)

\* str_literal has reached the end of the input
unterminated(st, start, eof, acc) == Step(Ok(start, "StrLiteral", acc, eof), st)

\* the loop of str_literal: eof and acc are its two local variables
RECURSIVE str_literal_loop(_, _, _, _, _)
str_literal_loop(inp, st, start, eof, acc) ==
    IF look_ahead_is(inp, st, DQ)
    THEN Step(Ok(start, "StrLiteral", acc, start + 1), st)
    ELSE IF st.la < Len(inp)
    THEN LET index == st.la
             chr == inp[index + 1]
             s1 == consume(inp, st)
         IN  IF chr = BSL
             THEN IF s1.la < Len(inp)
                  THEN LET i == s1.la
                           c == inp[i + 1]
                           s2 == consume(inp, s1)
                       IN  IF escape_char(c) # NoChar
                           THEN str_literal_loop(inp, s2, start, index + 1,
                                                 Append(acc, escape_char(c)))
                           ELSE Step(Err("InvalidEscapeSequence", i), s2)
                  ELSE Step(Err("UnexpectedEOF", NoOffset), s1)
             ELSE IF chr = "$"
             THEN IF look_ahead_is(inp, s1, "{")
                  THEN interpolation_start(consume(inp, s1), start, index, acc)
                  ELSE str_literal_loop(inp, s1, start, index + 1, Append(acc, "$"))
             ELSE str_literal_loop(inp, s1, start, index + 1, Append(acc, chr))
    ELSE unterminated(st, start, eof, acc)

str_literal(inp, st, start) == str_literal_loop(inp, st, start, start + 1, <<>>)

-----------------------------------------------------------------------------
(* Lexer::next, one operator for each of its three parts.                  *)

\* the deferred interpolation start without the pop of the DollarBrace mode
next_dollar_brace_nopop(inp, st) ==
    Step(Ok(st.mode.index, "DollarBrace", <<>>, st.mode.index + 2),
         push_mode(st, ModeNormal))

\* mode is DollarBrace(index): the deferred interpolation start
next_dollar_brace(inp, st) ==
    LET index == st.mode.index
        p == pop_mode(st)
    IN  IF ~p.ok THEN Step(Panic("assert"), p.st)
        ELSE Step(Ok(index, "DollarBrace", <<>>, index + 2),
                  push_mode(p.st, ModeNormal))

\* mode is Str
next_str(inp, st) ==
    IF look_ahead_is(inp, st, DQ)
    THEN LET index == st.la
             p == pop_mode(consume(inp, st))
         IN  IF ~p.ok THEN Step(Panic("assert"), p.st)
             ELSE Step(Ok(index, "DoubleQuote", <<>>, index + 1), p.st)
    ELSE IF st.la < Len(inp) THEN str_literal(inp, st, st.la)
    ELSE Step(EndOfSeq, st)

SingleCharTokens ==
    { <<",", "Comma">>, <<":", "Colon">>, <<";", "SemiCol">>,
      <<"[", "LBracket">>, <<"]", "RBracket">>, <<"(", "LParen">>,
      <<")", "RParen">>, <<"#", "Hash">>, <<BQ, "Backtick">> }

\* the token that starts with the character chr consumed at offset index
next_token(inp, st, index, chr) ==
    LET la_chr == LookChar(inp, st.la)
        single == { k \in SingleCharTokens : k[1] = chr }
        one(tok) == Step(Ok(index, tok, <<>>, index + 1), st)
        two(tok) == Step(Ok(index, tok, <<>>, index + 2), consume(inp, st))
    IN  IF chr \in { ",", ":", ";" } THEN one((CHOOSE k \in single : TRUE)[2])
        ELSE IF chr = "$"
        THEN IF la_chr = "=" THEN two("DollarEquals")
             ELSE IF la_chr = "[" THEN two("DollarBracket")
             ELSE IF la_chr = "{" THEN two("DollarBrace")
             ELSE one("Dollar")
        ELSE IF chr = "{"
        THEN Step(Ok(index, "LBrace", <<>>, index + 1), push_mode(st, ModeNormal))
        ELSE IF chr = "}"
        THEN LET p == pop_mode(st)
             IN  IF ~p.ok THEN Step(Err("UnmatchedCloseBrace", index), p.st)
                 ELSE Step(Ok(index, "RBrace", <<>>, index + 1), p.st)
        ELSE IF single # {} THEN one((CHOOSE k \in single : TRUE)[2])
        ELSE IF chr = DQ
        THEN Step(Ok(index, "DoubleQuote", <<>>, index + 1), push_mode(st, ModeStr))
        ELSE IF is_ident_start(chr, la_chr) THEN identifier(inp, st, index)
        ELSE IF chr = "_" THEN one("Underscore")
        ELSE IF is_num_start(chr, la_chr) THEN num_literal(inp, st, index)
        ELSE IF is_op_char(chr) THEN operator(inp, st, index)
        ELSE Step(Err("UnexpectedChar", index), st)

\* mode is Normal: the loop that skips whitespace and lexes one token
next_normal(inp, st) ==
    LET index == CHOOSE i \in st.la .. Len(inp) :
                     /\ i = Len(inp) \/ ~is_whitespace(inp[i + 1])
                     /\ \A j \in st.la .. (i - 1) : is_whitespace(inp[j + 1])
    IN  IF index = Len(inp)
        THEN Step(EndOfSeq, [st EXCEPT !.la = Len(inp)])
        ELSE next_token(inp, [st EXCEPT !.la = index + 1], index, inp[index + 1])

next(inp, st) ==
    IF st.mode.tag = "DollarBrace" THEN next_dollar_brace(inp, st)
    ELSE IF st.mode.tag = "Str" THEN next_str(inp, st)
    ELSE next_normal(inp, st)

-----------------------------------------------------------------------------
(* The source texts the lexer is run on.                                   *)

Alphabet == { DQ, "$", "{", "}", BSL, "a", "1", ".", " ", "-" }

\* every text of at most n characters of Alphabet
RECURSIVE Texts(_)
Texts(n) ==
    IF n = 0 THEN { <<>> }
    ELSE LET shorter == Texts(n - 1)
         IN  shorter \cup { Append(t, c) : t \in shorter, c \in Alphabet }

NestUnits == { <<DQ>>, <<"$", "{">>, <<"{">>, <<"}">> }

\* every text made of at most n of the units of strings and interpolations
RECURSIVE UnitTexts(_)
UnitTexts(n) ==
    IF n = 0 THEN { <<>> }
    ELSE LET shorter == UnitTexts(n - 1)
         IN  shorter \cup { t \o u : t \in shorter, u \in NestUnits }

\* a string that opens with an interpolation, followed by at most n units
NestedTexts(n) == { <<DQ, "$", "{">> \o t : t \in UnitTexts(n) }

\* "${x}"
ExInterpolation ==
    <<DQ, "$", "{", "x", "}", DQ>>

\* "a${x}b"
ExTextInterpolation ==
    <<DQ, "a", "$", "{", "x", "}", "b", DQ>>

\* }
ExLoneBrace ==
    <<"}">>

\* 1a
ExNumThenIdent ==
    <<"1", "a">>

\* 12.5
ExNumber ==
    <<"1", "2", ".", "5">>

\* the text of the module documentation
ExModuleDoc ==
    <<DQ, "h", "e", "l", "l", "o", ",", " ", "I", " ", "h", "a", "v", "e",
      " ", "1", " ", "+", " ", "$", "{", " ", "{", "a", " ", "=", " ", DQ,
      "4", "0", DQ, "}", ".", "a", " ", "}", " ", "+", " ", "1", " ", "b",
      "a", "n", "a", "n", "a", "s", ".", DQ>>

\* "a\${x}"
ExEscapedDollar ==
    <<DQ, "a", BSL, "$", "{", "x", "}", DQ>>

Examples ==
    { ExInterpolation, ExTextInterpolation, ExLoneBrace, ExNumThenIdent,
      ExNumber, ExModuleDoc, ExEscapedDollar }

Inputs == Texts(MaxLen) \cup NestedTexts(MaxUnits) \cup Examples

-----------------------------------------------------------------------------
(* The lexer as a state machine: Lexer::new, then calls of next().         *)

LinIdle ==
    /\ lin = <<>>
    /\ scope_map = <<>>
    /\ hosts = <<>>
    /\ id_mapping = <<>>
    /\ phase = "idle"

\* Lexer::new on any of the source texts
Init ==
    /\ input \in Inputs
    /\ look_ahead = 0
    /\ mode = ModeNormal
    /\ mode_stack = <<>>
    /\ ret = NoCall
    /\ calls = <<>>
    /\ ended = 0
    /\ LinIdle

\* the consumer makes no call after a panic, and the model follows it for
\* MaxEnd calls past the first None
CanCall == ret.kind # "Panic" /\ ended <= MaxEnd

Call(r) ==
    /\ look_ahead' = r.st.la
    /\ mode' = r.st.mode
    /\ mode_stack' = r.st.stack
    /\ ret' = r.ret
    /\ calls' = Append(calls, [pre |-> LexState(look_ahead, mode, mode_stack),
                               ret |-> r.ret,
                               post |-> r.st])
    /\ ended' = IF r.ret.kind = "None" THEN ended + 1 ELSE ended
    /\ UNCHANGED input
    /\ UNCHANGED linvars

\* next() called in DollarBrace mode
NextDollarBrace ==
    /\ CanCall
    /\ mode.tag = "DollarBrace"
    /\ Call(next(input, LexState(look_ahead, mode, mode_stack)))

\* next() called in Str mode
NextStr ==
    /\ CanCall
    /\ mode.tag = "Str"
    /\ Call(next(input, LexState(look_ahead, mode, mode_stack)))

\* next() called in Normal mode
NextNormal ==
    /\ CanCall
    /\ mode.tag = "Normal"
    /\ Call(next(input, LexState(look_ahead, mode, mode_stack)))

Next == NextDollarBrace \/ NextStr \/ NextNormal

Spec == Init /\ [][Next]_vars

-----------------------------------------------------------------------------
(* What the claims about the lexer are stated with.                        *)

NCalls == Len(calls)
IsTok(r, tok) == r.kind = "Ok" /\ r.tok = tok
AllWhitespace(from, to) == \A i \in from .. (to - 1) : is_whitespace(input[i + 1])

\* The nesting of a text read off its characters alone: code is a run of
\* characters, "{" code "}" pairs and strings; a string runs from a double
\* quote to the next unescaped one and holds characters, escapes (a
\* backslash and the character after it) and interpolations "${" code "}".
\* ScanCode gives the offset of the first "}" of the code from offset i that
\* closes nothing opened in it, "eof" when the code ends with the text, and
\* "fail" when a pair or a string inside it is left open.
RECURSIVE ScanCode(_, _), ScanStr(_, _)
ScanCode(inp, i) ==
    IF i >= Len(inp) THEN [k |-> "eof", at |-> Len(inp)]
    ELSE IF inp[i + 1] = "}" THEN [k |-> "close", at |-> i]
    ELSE IF inp[i + 1] = "{"
    THEN LET r == ScanCode(inp, i + 1)
         IN  IF r.k = "close" THEN ScanCode(inp, r.at + 1)
             ELSE [k |-> "fail", at |-> Len(inp)]
    ELSE IF inp[i + 1] = DQ
    THEN LET r == ScanStr(inp, i + 1)
         IN  IF r.k = "close" THEN ScanCode(inp, r.at + 1)
             ELSE [k |-> "fail", at |-> Len(inp)]
    ELSE ScanCode(inp, i + 1)

\* the offset of the double quote that closes the string whose text starts
\* at offset i
ScanStr(inp, i) ==
    IF i >= Len(inp) THEN [k |-> "fail", at |-> Len(inp)]
    ELSE IF inp[i + 1] = DQ THEN [k |-> "close", at |-> i]
    ELSE IF inp[i + 1] = BSL THEN ScanStr(inp, i + 2)
    ELSE IF inp[i + 1] = "$" /\ i + 1 < Len(inp) /\ inp[i + 2] = "{"
    THEN LET r == ScanCode(inp, i + 2)
         IN  IF r.k = "close" THEN ScanStr(inp, r.at + 1)
             ELSE [k |-> "fail", at |-> Len(inp)]
    ELSE ScanStr(inp, i + 1)

\* braces, double quotes and interpolations are balanced and properly nested
WellFormed(inp) == ScanCode(inp, 0).k = "eof"

\* the offset at which plain string text from offset i stops: at a double
\* quote, at a "${", or at the end of the text
RECURSIVE TextStop(_, _)
TextStop(inp, i) ==
    IF i >= Len(inp) THEN Len(inp)
    ELSE IF inp[i + 1] = DQ THEN i
    ELSE IF inp[i + 1] = "$" /\ i + 1 < Len(inp) /\ inp[i + 2] = "{" THEN i
    ELSE TextStop(inp, i + 1)

HasEscape(inp, from, to) == \E i \in from .. (to - 1) : inp[i + 1] = BSL

\* call c found Str mode and string text that is free of escapes before it
PlainText(c) ==
    /\ c.pre.mode = ModeStr
    /\ TextStop(input, c.pre.la) > c.pre.la
    /\ ~HasEscape(input, c.pre.la, TextStop(input, c.pre.la))

\* call c lexed what follows offset at as the text of a string
LexedAsString(c, at) ==
    LET chr == LookChar(input, at)
        stop == TextStop(input, at)
    IN  /\ c.pre.mode = ModeStr
        /\ c.pre.la = at
        /\ IF chr = NoChar THEN c.ret = EndOfSeq
           ELSE IF chr = DQ THEN c.ret = Ok(at, "DoubleQuote", <<>>, at + 1)
           ELSE IF stop = at THEN c.ret = Ok(at, "DollarBrace", <<>>, at + 2)
           ELSE IF HasEscape(input, at, stop)
           THEN IsTok(c.ret, "StrLiteral") \/ c.ret.kind = "Err"
           ELSE /\ IsTok(c.ret, "StrLiteral")
                /\ c.ret.start = at
                /\ c.ret.text = SubSeq(input, at + 1, stop)

\* call k returned the interpolation start of a "${" met in a string
InStringInterp(k) ==
    /\ IsTok(calls[k].ret, "DollarBrace")
    /\ calls[k].pre.mode.tag \in { "Str", "DollarBrace" }

\* the "}" at offset at has been consumed by the calls made so far
Consumed(at) == look_ahead > at

\* C1: when a "${" is lexed inside a string literal and its body is balanced
\* (nested "{" "}" pairs and nested strings with their own interpolations
\* included), the "}" that matches it is lexed as a closing brace that
\* restores Str mode, and the characters after that "}", up to the next
\* double quote or "${", are emitted as string-literal text.
ClaimC1 ==
    \A k \in 1 .. NCalls :
        InStringInterp(k) =>
            LET close == ScanCode(input, calls[k].ret.end)
            IN  (close.k = "close" /\ Consumed(close.at)) =>
                    \E m \in (k + 1) .. NCalls :
                        /\ calls[m].ret = Ok(close.at, "RBrace", <<>>, close.at + 1)
                        /\ calls[m].post.mode = ModeStr
                        /\ m < NCalls => LexedAsString(calls[m + 1], close.at + 1)

\* the tokens and errors returned so far, without their spans
TokenList == [k \in 1 .. NCalls |-> <<calls[k].ret.tok, calls[k].ret.text>>]

\* the first offset from i on that holds no whitespace, Len(input) if none
FirstNonWs(i) ==
    CHOOSE j \in i .. Len(input) :
        /\ j = Len(input) \/ ~is_whitespace(input[j + 1])
        /\ AllWhitespace(i, j)

\* the first offset from i on that holds no digit, Len(input) if none
DigitsEnd(i) ==
    IF i >= Len(input) THEN Len(input)
    ELSE CHOOSE j \in i .. Len(input) :
             /\ j = Len(input) \/ ~is_digit(input[j + 1])
             /\ \A d \in i .. (j - 1) : is_digit(input[d + 1])

\* C2: the lexer never emits a string-literal token with empty text; a "${"
\* met in Str mode with no accumulated text pushes Normal mode and is
\* returned as the interpolation start by that same call; "${x}" in double
\* quotes yields double quote, interpolation start, identifier x, closing
\* brace, double quote.
TheoremC2 ==
    /\ \A k \in 1 .. NCalls :
           IsTok(calls[k].ret, "StrLiteral") => calls[k].ret.text # <<>>
    /\ \A k \in 1 .. NCalls :
           LET c == calls[k]
               at == c.pre.la
           IN  (/\ c.pre.mode = ModeStr
                /\ LookChar(input, at) = "$"
                /\ LookChar(input, at + 1) = "{") =>
                   /\ c.ret = Ok(at, "DollarBrace", <<>>, at + 2)
                   /\ c.post = LexState(at + 2, ModeNormal,
                                        Append(c.pre.stack, ModeStr))
    /\ (input = ExInterpolation /\ ended >= 1) =>
           SubSeq(TokenList, 1, 6) =
               << <<"DoubleQuote", <<>> >>, <<"DollarBrace", <<>> >>,
                  <<"Identifier", <<"x">> >>, <<"RBrace", <<>> >>,
                  <<"DoubleQuote", <<>> >>, <<"", <<>> >> >>

\* an interpolation start returned right after the "}" of another
WitnessC2 ==
    /\ NCalls >= 2
    /\ IsTok(calls[NCalls - 1].ret, "RBrace")
    /\ calls[NCalls].pre.mode = ModeStr
    /\ IsTok(ret, "DollarBrace")

\* C3: a "${" met in Str mode after non-empty text makes the call return the
\* string-literal token, its span ending at the offset of "$"; the very next
\* call returns the interpolation start with span [offset, offset + 2),
\* consumes nothing, and leaves Normal mode with Str on top of the stack.
TheoremC3 ==
    /\ \A k \in 1 .. NCalls :
           LET c == calls[k]
               at == c.pre.la
               stop == TextStop(input, at)
           IN  (PlainText(c) /\ LookChar(input, stop) = "$") =>
                   /\ c.ret = Ok(at, "StrLiteral", SubSeq(input, at + 1, stop), stop)
                   /\ c.post = LexState(stop + 2, ModeDollarBrace(stop),
                                        Append(c.pre.stack, ModeStr))
    /\ \A k \in 1 .. NCalls :
           LET c == calls[k]
               index == c.pre.mode.index
           IN  c.pre.mode.tag = "DollarBrace" =>
                   /\ k > 1
                   /\ IsTok(calls[k - 1].ret, "StrLiteral")
                   /\ calls[k - 1].ret.end = index
                   /\ c.ret = Ok(index, "DollarBrace", <<>>, index + 2)
                   /\ c.post.la = c.pre.la
                   /\ c.post.la = index + 2
                   /\ c.post.mode = ModeNormal
                   /\ c.post.stack # <<>>
                   /\ c.post.stack[Len(c.post.stack)] = ModeStr
    /\ (input = ExTextInterpolation /\ ended >= 1) =>
           SubSeq(TokenList, 1, 8) =
               << <<"DoubleQuote", <<>> >>, <<"StrLiteral", <<"a">> >>,
                  <<"DollarBrace", <<>> >>, <<"Identifier", <<"x">> >>,
                  <<"RBrace", <<>> >>, <<"StrLiteral", <<"b">> >>,
                  <<"DoubleQuote", <<>> >>, <<"", <<>> >> >>

\* the deferred interpolation start has just been returned
WitnessC3 ==
    /\ NCalls >= 2
    /\ IsTok(calls[NCalls - 1].ret, "StrLiteral")
    /\ calls[NCalls].pre.mode.tag = "DollarBrace"
    /\ IsTok(ret, "DollarBrace")
    /\ mode = ModeNormal

\* C4: a "}" lexed in Normal mode with an empty mode stack yields
\* UnmatchedCloseBrace with the offset of that "}", as an error value, and
\* leaves Normal mode and an empty stack.
TheoremC4 ==
    \A k \in 1 .. NCalls :
        LET c == calls[k]
            at == FirstNonWs(c.pre.la)
        IN  (/\ c.pre.mode = ModeNormal
             /\ c.pre.stack = <<>>
             /\ LookChar(input, at) = "}") =>
                /\ c.ret = Err("UnmatchedCloseBrace", at)
                /\ c.post = LexState(at + 1, ModeNormal, <<>>)

\* the error for a "}" that follows a token and whitespace
WitnessC4 ==
    /\ NCalls >= 2
    /\ ret.kind = "Err"
    /\ ret.tok = "UnmatchedCloseBrace"
    /\ ret.start > calls[NCalls].pre.la
    /\ mode_stack = <<>>

\* C5: for every input whose braces, double quotes and interpolations are
\* balanced and properly nested, the mode stack is empty and the mode is
\* Normal when the lexer reaches the end of the sequence.
ClaimC5 ==
    (WellFormed(input) /\ ended >= 1) => (mode_stack = <<>> /\ mode = ModeNormal)

\* the end of the last token returned before call k, 0 if there is none
RECURSIVE LastEnd(_)
LastEnd(k) ==
    IF k <= 1 THEN 0
    ELSE IF calls[k - 1].ret.kind = "Ok" THEN calls[k - 1].ret.end
    ELSE LastEnd(k - 1)

NoErrorBefore(k) == \A j \in 1 .. k : calls[j].ret.kind \in { "Ok", "None" }

\* C6: the spans of the tokens, with the whitespace skipped between them,
\* tile the input: each token starts where the one before it ended, but for
\* whitespace, and its span ends where the characters consumed for it end.
ClaimC6 ==
    \A k \in 1 .. NCalls :
        LET c == calls[k]
        IN  /\ (c.ret.kind = "Ok" /\ NoErrorBefore(k)) =>
                /\ LastEnd(k) <= c.ret.start
                /\ AllWhitespace(LastEnd(k), c.ret.start)
                /\ c.ret.start < c.ret.end
                /\ c.ret.end = IF c.post.mode.tag = "DollarBrace"
                               THEN c.post.mode.index
                               ELSE c.post.la
            /\ (c.ret.kind = "None" /\ NoErrorBefore(k)) =>
                AllWhitespace(LastEnd(k), Len(input))

\* C7: a numeric literal (digits, optionally "." and more digits) directly
\* followed by an identifier character yields NumThenIdent with the offset
\* of that character and no numeric token; otherwise the literal yields one
\* numeric token, which holds the whole literal (12.5 for 12.5).
TheoremC7 ==
    /\ \A k \in 1 .. NCalls :
           LET c == calls[k]
               s == FirstNonWs(c.pre.la)
               e1 == DigitsEnd(s)
               frac == LookChar(input, e1) = "."
               e == IF frac THEN DigitsEnd(e1 + 1) ELSE e1
               after == LookChar(input, e)
           IN  (c.pre.mode = ModeNormal /\ is_digit(LookChar(input, s))) =>
                   IF after # NoChar /\ is_ident_char(after)
                   THEN /\ c.ret = Err("NumThenIdent", e)
                        /\ c.post.la = e
                   ELSE /\ IsTok(c.ret, "NumLiteral")
                        /\ c.ret.start = s
                        /\ c.post.la = e
                        /\ (~frac \/ e > e1 + 1) =>
                               /\ c.ret.text = SubSeq(input, s + 1, e)
                               /\ c.ret.end = e
    /\ (input = ExNumThenIdent /\ NCalls >= 1) =>
           calls[1].ret = Err("NumThenIdent", 1)
    /\ (input = ExNumber /\ NCalls >= 2) =>
           /\ calls[1].ret = Ok(0, "NumLiteral", ExNumber, 4)
           /\ calls[2].ret = EndOfSeq

\* NumThenIdent for a literal with a fractional part
WitnessC7 ==
    /\ NCalls >= 1
    /\ ret = Err("NumThenIdent", 3)
    /\ SubSeq(input, 1, 3) = <<"1", ".", "1">>

\* how the scan of string text from offset i ends: at a closing "quote", at
\* an "interp"olation, at an "invalid" escape, at the end of the input
\* ("eof"), or at the end of the input right after a backslash ("eof_escape")
RECURSIVE StrScan(_)
StrScan(i) ==
    IF i >= Len(input) THEN "eof"
    ELSE IF input[i + 1] = DQ THEN "quote"
    ELSE IF input[i + 1] = BSL
    THEN IF i + 1 >= Len(input) THEN "eof_escape"
         ELSE IF escape_char(input[i + 2]) = NoChar THEN "invalid"
         ELSE StrScan(i + 2)
    ELSE IF input[i + 1] = "$" /\ LookChar(input, i + 1) = "{" THEN "interp"
    ELSE StrScan(i + 1)

\* call c scanned string text
ScansString(c) ==
    /\ c.pre.mode = ModeStr
    /\ c.pre.la < Len(input)
    /\ LookChar(input, c.pre.la) # DQ

\* C8 as claimed: when the end of the input is reached while scanning a
\* string literal, no error is yielded: the accumulated text is returned as
\* a string-literal token and the following call yields end of sequence.
ClaimC8 ==
    \A k \in 1 .. NCalls :
        LET c == calls[k]
        IN  (ScansString(c) /\ StrScan(c.pre.la) \in { "eof", "eof_escape" }) =>
                /\ IsTok(c.ret, "StrLiteral")
                /\ k < NCalls => calls[k + 1].ret = EndOfSeq

\* C8 as amended: when the end of the input is reached while scanning a
\* string literal, the accumulated text is returned as a string-literal
\* token and no error is yielded, unless the input ends right after a
\* backslash, in which case the call yields UnexpectedEOF; in both cases the
\* lexer stays in Str mode and the following call yields end of sequence.
TheoremC8 ==
    \A k \in 1 .. NCalls :
        LET c == calls[k]
            how == StrScan(c.pre.la)
        IN  (ScansString(c) /\ how \in { "eof", "eof_escape" }) =>
                /\ how = "eof" =>
                       /\ IsTok(c.ret, "StrLiteral")
                       /\ c.ret.start = c.pre.la
                       /\ c.ret.text # <<>>
                       /\ ~HasEscape(input, c.pre.la, Len(input)) =>
                              c.ret.text = SubSeq(input, c.pre.la + 1, Len(input))
                /\ how = "eof_escape" => c.ret = Err("UnexpectedEOF", NoOffset)
                /\ c.post = LexState(Len(input), ModeStr, c.pre.stack)
                /\ k < NCalls => calls[k + 1].ret = EndOfSeq

\* end of sequence right after the text of an unterminated string
WitnessC8 ==
    /\ NCalls >= 2
    /\ ScansString(calls[NCalls - 1])
    /\ StrScan(calls[NCalls - 1].pre.la) = "eof"
    /\ IsTok(calls[NCalls - 1].ret, "StrLiteral")
    /\ ret = EndOfSeq

\* C9 as claimed: once next() has yielded an error, every later call yields
\* end of sequence.
ClaimC9 ==
    \A j \in 1 .. NCalls : \A k \in (j + 1) .. NCalls :
        calls[j].ret.kind = "Err" => calls[k].ret.kind = "None"

\* the look-ahead a call that returned error r leaves
AfterError(r) ==
    IF r.tok = "NumThenIdent" THEN r.start
    ELSE IF r.tok = "UnexpectedEOF" THEN Len(input)
    ELSE r.start + 1

\* C9 as amended: an error does not end the sequence.  A call that yields an
\* error leaves the mode and the mode stack as it found them and the
\* look-ahead right after the offending character (on it for NumThenIdent),
\* later calls go on lexing from there, and next() yields end of sequence
\* only when the input is exhausted: nothing but whitespace is left in
\* Normal mode, nothing at all in Str mode.
TheoremC9 ==
    \A k \in 1 .. NCalls :
        LET c == calls[k]
        IN  /\ c.ret.kind = "Err" =>
                /\ c.post.la = AfterError(c.ret)
                /\ c.post.mode = c.pre.mode
                /\ c.post.stack = c.pre.stack
            /\ c.ret.kind = "None" =>
                /\ c.post.la = Len(input)
                /\ c.pre.mode.tag # "DollarBrace"
                /\ c.pre.mode = ModeNormal => AllWhitespace(c.pre.la, Len(input))
                /\ c.pre.mode = ModeStr => c.pre.la = Len(input)
            /\ (k > 1 /\ calls[k - 1].ret.kind = "Err"
                      /\ FirstNonWs(c.pre.la) < Len(input)) =>
                   c.ret.kind # "None"

\* a token returned by the call that follows an error
WitnessC9 ==
    /\ NCalls >= 2
    /\ calls[NCalls - 1].ret.kind = "Err"
    /\ ret.kind = "Ok"

-----------------------------------------------------------------------------
(* The linearization builder: terms, positions, items.                     *)

\* most items in the linearization
MaxItems == 3
\* most AnalysisHost values alive at once
MaxHosts == 2
\* largest ScopeId handed to scope()
MaxScopeId == 1
Idents == { "x", "y" }
ScopeIds == 1 .. MaxScopeId
NoId == 0 - 1

\* TermPos: None, Original(span), Inherited(span); of a span the model keeps
\* src_id and start, the two fields the code reads
PosNone == [tag |-> "None", src_id |-> 0, start |-> 0]
Original(src_id, start) == [tag |-> "Original", src_id |-> src_id, start |-> start]
Inherited(src_id, start) == [tag |-> "Inherited", src_id |-> src_id, start |-> start]
\* Option<TermPos>::None, the position of an identifier that has none
NoPos == [tag |-> "Absent", src_id |-> 0, start |-> 0]

\* the positions of the terms handed to add_term: none, and two spans that
\* src_id and start order differently
Positions == { PosNone, Original(0, 1), Inherited(1, 0) }

\* TypeWrapper, opaque but for whether to_type has resolved it
Ty(of) == [of |-> of, resolved |-> FALSE]

\* Option<MetaValue>: contracts lists, for every contract, the identifier of
\* its type when that is Flat(Var(identifier)) and "other" otherwise; value
\* tells whether MetaValue.value is Some
NoMeta == [some |-> FALSE, contracts |-> <<>>, value |-> FALSE]
Meta(contracts, value) == [some |-> TRUE, contracts |-> contracts, value |-> value]

\* TermKind
Structure ==
    [k |-> "Structure", ident |-> "", usages |-> <<>>, decl |-> NoId,
     fields |-> <<>>, body_pos |-> PosNone, record |-> NoId]
Declaration(ident, usages) ==
    [k |-> "Declaration", ident |-> ident, usages |-> usages, decl |-> NoId,
     fields |-> <<>>, body_pos |-> PosNone, record |-> NoId]
\* Usage(Some(decl)), and Usage(None) for decl = NoId
Usage(decl) ==
    [k |-> "Usage", ident |-> "", usages |-> <<>>, decl |-> decl,
     fields |-> <<>>, body_pos |-> PosNone, record |-> NoId]
Record(fields) ==
    [k |-> "Record", ident |-> "", usages |-> <<>>, decl |-> NoId,
     fields |-> fields, body_pos |-> PosNone, record |-> NoId]
RecordField(ident, body_pos, record, usages) ==
    [k |-> "RecordField", ident |-> ident, usages |-> usages, decl |-> NoId,
     fields |-> <<>>, body_pos |-> body_pos, record |-> record]

LinearizationItem(id, pos, ty, kind, scope, meta) ==
    [id |-> id, pos |-> pos, ty |-> ty, kind |-> kind, scope |-> scope,
     meta |-> meta]

\* Term: fields is the field map of a record in the order it is iterated,
\* each field [ident, ipos, term, pos] an identifier, the identifier's
\* optional position, and the RichTerm of the value (its term and position)
TLet(ident) == [t |-> "Let", ident |-> ident, fields |-> <<>>, meta |-> NoMeta]
TVar(ident) == [t |-> "Var", ident |-> ident, fields |-> <<>>, meta |-> NoMeta]
TRecord(fields) == [t |-> "Record", ident |-> "", fields |-> fields, meta |-> NoMeta]
TRecRecord(fields) ==
    [t |-> "RecRecord", ident |-> "", fields |-> fields, meta |-> NoMeta]
TMetaValue(meta) == [t |-> "MetaValue", ident |-> "", fields |-> <<>>, meta |-> meta]
TOther == [t |-> "Other", ident |-> "", fields |-> <<>>, meta |-> NoMeta]
Field(ident, ipos, term, pos) ==
    [ident |-> ident, ipos |-> ipos, term |-> term, pos |-> pos]

-----------------------------------------------------------------------------
(* Environment, from nickel::typecheck::linearization: a map from names to *)
(* declaration ids, cloned on scope entry.                                 *)

Environment_new == [n \in Idents |-> NoId]
Environment_insert(env, ident, id) == [env EXCEPT ![ident] = id]
\* NoId stands for None
Environment_get(env, ident) == env[ident]

-----------------------------------------------------------------------------
(* BuildingExt and AnalysisHost.  A builder value b holds the shared       *)
(* linearization (lin, scope), the host add_term runs on, and whether a    *)
(* panic has been raised.                                                  *)

AnalysisHost_new == [env |-> Environment_new, scope |-> <<>>, meta |-> NoMeta]

Builder(l, s, host) == [lin |-> l, scope |-> s, host |-> host, panic |-> FALSE]

\* a push that starts the list of the scope anew with every item
push_anew(b, item) ==
    [b EXCEPT
        !.scope = (item.scope :> <<item.id>>) @@ b.scope,
        !.lin = Append(b.lin, item)]

push(b, item) ==
    [b EXCEPT
        !.scope = IF item.scope \in DOMAIN b.scope
                  THEN [b.scope EXCEPT ![item.scope] = Append(@, item.id)]
                  ELSE (item.scope :> <<item.id>>) @@ b.scope,
        !.lin = Append(b.lin, item)]

\* add_usage putting the usage in front of the list
add_usage_front(b, decl, usage) ==
    IF decl >= Len(b.lin) THEN [b EXCEPT !.panic = TRUE]
    ELSE IF b.lin[decl + 1].kind.k \in { "Structure", "Usage", "Record" }
    THEN [b EXCEPT !.panic = TRUE]
    ELSE [b EXCEPT !.lin[decl + 1].kind.usages = <<usage>> \o @]

add_usage(b, decl, usage) ==
    IF decl >= Len(b.lin) THEN [b EXCEPT !.panic = TRUE]
    ELSE IF b.lin[decl + 1].kind.k \in { "Structure", "Usage", "Record" }
    THEN [b EXCEPT !.panic = TRUE]
    ELSE [b EXCEPT !.lin[decl + 1].kind.usages = Append(@, usage)]

\* an id generator that starts one above the length of the sequence
id_gen_above(b) == Len(b.lin) + 1

id_gen(b) == Len(b.lin)

\* a take() that leaves the pending metadata in place
keep_meta(b) == b

\* self.meta.take(): the pending metadata, and the host with none pending
take_meta(b) == [b EXCEPT !.host.meta = NoMeta]

\* a Usage item linked to the id of the declaration itself
push_usage_exact(b, id, ident, pos, ty, meta) ==
    LET parent == Environment_get(b.host.env, ident)
        item == LinearizationItem(id, pos, ty, Usage(parent), b.host.scope, meta)
        pushed == push(b, item)
    IN  IF parent = NoId THEN pushed ELSE add_usage(pushed, parent, id)

\* the Usage item of a variable, pushed and linked to its declaration
push_usage(b, id, ident, pos, ty, meta) ==
    LET parent == Environment_get(b.host.env, ident)
        item == LinearizationItem(id, pos, ty,
                    Usage(IF parent = NoId THEN NoId ELSE parent + 1),
                    b.host.scope, meta)
        pushed == push(b, item)
    IN  IF parent = NoId THEN pushed ELSE add_usage(pushed, parent, id)

\* the loop over the contracts of a MetaValue
RECURSIVE add_contracts(_, _, _, _)
add_contracts(b, contracts, i, pos) ==
    IF i > Len(contracts) \/ b.panic THEN b
    ELSE IF contracts[i] \in Idents
    THEN add_contracts(
             push_usage(b, id_gen(b), contracts[i], pos,
                        Ty(<<"Var", contracts[i]>>), NoMeta),
             contracts, i + 1, pos)
    ELSE add_contracts(b, contracts, i + 1, pos)

\* field items that name themselves, not the record, as their record
field_items_selfowned(b, fields, id, pos, ty) ==
    [i \in 1 .. Len(fields) |->
        LinearizationItem(
            id + i,
            IF fields[i].ipos = NoPos THEN pos ELSE fields[i].ipos,
            ty,
            RecordField(fields[i].ident, fields[i].pos, id + i, <<>>),
            b.host.scope,
            IF fields[i].term.t = "MetaValue"
            THEN [fields[i].term.meta EXCEPT !.value = FALSE]
            ELSE NoMeta)]

\* field items that get no position when their identifier has none
field_items_unplaced(b, fields, id, pos, ty) ==
    [i \in 1 .. Len(fields) |->
        LinearizationItem(
            id + i,
            IF fields[i].ipos = NoPos THEN PosNone ELSE fields[i].ipos,
            ty,
            RecordField(fields[i].ident, fields[i].pos, id, <<>>),
            b.host.scope,
            IF fields[i].term.t = "MetaValue"
            THEN [fields[i].term.meta EXCEPT !.value = FALSE]
            ELSE NoMeta)]

\* the items of the fields of a record whose own id is id
field_items(b, fields, id, pos, ty) ==
    [i \in 1 .. Len(fields) |->
        LinearizationItem(
            id + i,
            IF fields[i].ipos = NoPos THEN pos ELSE fields[i].ipos,
            ty,
            RecordField(fields[i].ident, fields[i].pos, id, <<>>),
            b.host.scope,
            IF fields[i].term.t = "MetaValue"
            THEN [fields[i].term.meta EXCEPT !.value = FALSE]
            ELSE NoMeta)]

RECURSIVE push_all(_, _, _)
push_all(b, items, i) ==
    IF i > Len(items) THEN b ELSE push_all(push(b, items[i]), items, i + 1)

RECURSIVE add_term(_, _, _, _), add_nested(_, _, _)
add_term(b, term, pos, ty) ==
    IF pos = PosNone \/ b.panic THEN b
    ELSE LET id == id_gen(b)
         IN  IF term.t = "Let"
             THEN push([take_meta(b) EXCEPT
                           !.host.env = Environment_insert(@, term.ident, Len(b.lin))],
                       LinearizationItem(id, pos, ty, Declaration(term.ident, <<>>),
                                         b.host.scope, b.host.meta))
             ELSE IF term.t = "Var"
             THEN push_usage(take_meta(b), id, term.ident, pos, ty, b.host.meta)
             ELSE IF term.t \in { "Record", "RecRecord" }
             THEN LET items == field_items(b, term.fields, id, pos, ty)
                      ids == [i \in 1 .. Len(items) |-> items[i].id]
                      rec == LinearizationItem(id, pos, ty, Record(ids),
                                               b.host.scope, b.host.meta)
                  IN  add_nested(push_all(push(take_meta(b), rec), items, 1),
                                 term.fields, 1)
             ELSE IF term.t = "MetaValue"
             THEN LET meta == [term.meta EXCEPT !.value = FALSE]
                      done == add_contracts(b, meta.contracts, 1, pos)
                  IN  [done EXCEPT !.host.meta = meta]
             ELSE push(take_meta(b),
                       LinearizationItem(id, pos, ty, Structure, b.host.scope,
                                         b.host.meta))

\* the loop that linearizes the fields that hold a record themselves
add_nested(b, fields, i) ==
    IF i > Len(fields) \/ b.panic THEN b
    ELSE IF fields[i].term.t = "Record" /\ fields[i].ipos # NoPos
    THEN add_nested(add_term(b, fields[i].term, fields[i].ipos, Ty("Sym")),
                    fields, i + 1)
    ELSE add_nested(b, fields, i + 1)

\* AnalysisHost::scope
scope(host, scope_id) ==
    [env |-> host.env, scope |-> Append(host.scope, scope_id), meta |-> NoMeta]

\* linearize: the key of sort_by_key
sort_key(item) == <<item.pos.src_id, item.pos.start>>

\* a comparison of keys that holds for no two equal keys
key_lt(a, b) == a[1] < b[1] \/ (a[1] = b[1] /\ a[2] < b[2])

key_le(a, b) == a[1] < b[1] \/ (a[1] = b[1] /\ a[2] <= b[2])

\* slice::sort_by_key, a stable sort: every item goes behind the items
\* already placed whose key is not greater than its own
RECURSIVE insert_by_key(_, _)
insert_by_key(sorted, item) ==
    IF sorted = <<>> THEN <<item>>
    ELSE IF key_le(sort_key(sorted[Len(sorted)]), sort_key(item))
    THEN Append(sorted, item)
    ELSE Append(insert_by_key(SubSeq(sorted, 1, Len(sorted) - 1), item),
                sorted[Len(sorted)])

RECURSIVE sort_prefix(_, _)
sort_prefix(items, n) ==
    IF n = 0 THEN <<>> ELSE insert_by_key(sort_prefix(items, n - 1), items[n])

\* the items left in the order the builder holds them
keep_order(items) == items

sort_by_key(items) == sort_prefix(items, Len(items))

\* reporting::to_type, which resolves the type of an item
to_type(ty) == [ty EXCEPT !.resolved = TRUE]

\* an id_mapping that maps every id to itself, its index before the sort
id_mapping_presort(sorted) ==
    [id \in { sorted[i].id : i \in 1 .. Len(sorted) } |-> id]

\* the id_mapping of the sorted items: id -> index
id_mapping_of(sorted) ==
    [id \in { sorted[i].id : i \in 1 .. Len(sorted) } |->
        (CHOOSE i \in 1 .. Len(sorted) :
            /\ sorted[i].id = id
            /\ \A j \in (i + 1) .. Len(sorted) : sorted[j].id # id) - 1]

-----------------------------------------------------------------------------
(* The terms the traversal hands to add_term.                              *)

\* most fields of a record literal
MaxFields == 2

\* the position of the value of a field, and of its identifier when it has one
BodyPos == Original(0, 1)
IdentPos == Original(0, 0)

\* the fields named ident: a plain value, with and without a position of
\* the identifier; an annotated value; a record literal, with and without a
\* position of the identifier; a recursive record literal
FieldsOf(ident) ==
    { Field(ident, NoPos, TOther, BodyPos),
      Field(ident, IdentPos, TOther, BodyPos),
      Field(ident, IdentPos, TMetaValue(Meta(<<"other">>, TRUE)), BodyPos),
      Field(ident, NoPos, TRecord(<<>>), BodyPos),
      Field(ident, IdentPos, TRecord(<<>>), BodyPos),
      Field(ident, IdentPos, TRecRecord(<<>>), BodyPos) }

\* the fields that follow the first one: a plain value or a record literal
MoreFieldsOf(ident) ==
    { Field(ident, IdentPos, TOther, BodyPos),
      Field(ident, IdentPos, TRecord(<<>>), BodyPos) }

\* the field maps of at most n fields, as the sequence their iteration
\* gives; the names are distinct: "x", then "y", "y", ...
RECURSIVE FieldMaps(_)
FieldMaps(n) ==
    IF n = 0 THEN { <<>> }
    ELSE IF n = 1 THEN { <<>> } \cup { <<f>> : f \in FieldsOf("x") }
    ELSE LET shorter == FieldMaps(n - 1)
         IN  shorter \cup
             { Append(fs, f) :
                 fs \in { m \in shorter : Len(m) = n - 1 },
                 f \in MoreFieldsOf("y") }

RecordTerms ==
    { TRecord(fs) : fs \in FieldMaps(MaxFields) }
        \cup { TRecRecord(fs) : fs \in FieldMaps(MaxFields) }

MetaTerms ==
    { TMetaValue(Meta(cs, TRUE)) : cs \in { <<"other", "x">> } }

Types == { Ty("Unif") }

-----------------------------------------------------------------------------
(* The builder as a state machine: the type checker calls add_term and     *)
(* scope on the hosts it holds, then linearize once.                       *)

LexIdle ==
    /\ input = <<>>
    /\ look_ahead = 0
    /\ mode = ModeNormal
    /\ mode_stack = <<>>
    /\ ret = NoCall
    /\ calls = <<>>
    /\ ended = 0

InitLin ==
    /\ lin = <<>>
    /\ scope_map = <<>>
    /\ hosts = <<AnalysisHost_new>>
    /\ id_mapping = <<>>
    /\ phase = "building"
    /\ LexIdle

\* add_term on host h with one environment shared by all the hosts
AddTerm_shared(h, term, pos, ty) ==
    /\ phase = "building"
    /\ LET b == add_term(Builder(lin, scope_map, hosts[h]), term, pos, ty)
       IN  /\ Len(b.lin) <= MaxItems
           /\ lin' = b.lin
           /\ scope_map' = b.scope
           /\ hosts' = [g \in 1 .. Len(hosts) |->
                            IF g = h THEN b.host
                            ELSE [hosts[g] EXCEPT !.env = b.host.env]]
           /\ phase' = IF b.panic THEN "panic" ELSE phase
    /\ UNCHANGED id_mapping
    /\ UNCHANGED lexvars

\* add_term(term, pos, ty) on host h
AddTerm(h, term, pos, ty) ==
    /\ phase = "building"
    /\ LET b == add_term(Builder(lin, scope_map, hosts[h]), term, pos, ty)
       IN  /\ Len(b.lin) <= MaxItems
           /\ lin' = b.lin
           /\ scope_map' = b.scope
           /\ hosts' = [hosts EXCEPT ![h] = b.host]
           /\ phase' = IF b.panic THEN "panic" ELSE phase
    /\ UNCHANGED id_mapping
    /\ UNCHANGED lexvars

AddLet ==
    \E h \in 1 .. Len(hosts), ident \in Idents, pos \in Positions, ty \in Types :
        AddTerm(h, TLet(ident), pos, ty)

AddVar ==
    \E h \in 1 .. Len(hosts), ident \in Idents, pos \in Positions, ty \in Types :
        AddTerm(h, TVar(ident), pos, ty)

AddRecord ==
    \E h \in 1 .. Len(hosts), term \in RecordTerms, pos \in Positions, ty \in Types :
        AddTerm(h, term, pos, ty)

AddMetaValue ==
    \E h \in 1 .. Len(hosts), term \in MetaTerms, pos \in Positions, ty \in Types :
        AddTerm(h, term, pos, ty)

AddOther ==
    \E h \in 1 .. Len(hosts), pos \in Positions, ty \in Types :
        AddTerm(h, TOther, pos, ty)

\* scope(scope_id) on host h gives a new host
EnterScope ==
    /\ phase = "building"
    /\ Len(hosts) < MaxHosts
    /\ \E h \in 1 .. Len(hosts), scope_id \in ScopeIds :
           hosts' = Append(hosts, scope(hosts[h], scope_id))
    /\ UNCHANGED <<lin, scope_map, id_mapping, phase>>
    /\ UNCHANGED lexvars

\* linearize: the items sorted and typed, or the unreachable!() of an item
\* without a position
Linearize ==
    /\ phase = "building"
    /\ IF \E i \in 1 .. Len(lin) : lin[i].pos = PosNone
       THEN /\ phase' = "panic"
            /\ UNCHANGED <<lin, id_mapping>>
       ELSE LET sorted == sort_by_key(lin)
            IN  /\ id_mapping' = id_mapping_of(sorted)
                /\ lin' = [i \in 1 .. Len(sorted) |->
                              [sorted[i] EXCEPT !.ty = to_type(@)]]
                /\ phase' = "completed"
    /\ UNCHANGED <<scope_map, hosts>>
    /\ UNCHANGED lexvars

NextLin ==
    \/ AddLet
    \/ AddVar
    \/ AddRecord
    \/ AddMetaValue
    \/ AddOther
    \/ EnterScope
    \/ Linearize

SpecLin == InitLin /\ [][NextLin]_vars


-----------------------------------------------------------------------------
(* What the claims about the linearization are stated with.                *)

\* C10: once linearize has run, the items of the Completed linearization are
\* non-decreasing in (src_id, start), whatever add_term and scope calls
\* built them.
TheoremC10 ==
    phase = "completed" =>
        \A i \in 1 .. (Len(lin) - 1) :
            \/ lin[i].pos.src_id < lin[i + 1].pos.src_id
            \/ /\ lin[i].pos.src_id = lin[i + 1].pos.src_id
               /\ lin[i].pos.start <= lin[i + 1].pos.start

\* a Completed linearization of three items or more, from both source
\* files, that linearize had to reorder
WitnessC10 ==
    /\ phase = "completed"
    /\ Len(lin) >= 3
    /\ \E i \in 1 .. (Len(lin) - 1) : lin[i].id > lin[i + 1].id
    /\ lin[1].pos.src_id < lin[Len(lin)].pos.src_id

\* the ids of the items, and the item that carries id k
ItemIds == { lin[i].id : i \in 1 .. Len(lin) }
ItemById(k) == lin[CHOOSE i \in 1 .. Len(lin) : lin[i].id = k]
SeqHas(s, x) == \E i \in 1 .. Len(s) : s[i] = x
IsUsage(item) == item.kind.k = "Usage"
HoldsUsages(item) == item.kind.k \in { "Declaration", "RecordField" }
Linked(item) == IsUsage(item) /\ item.kind.decl # NoId

\* C11: every Usage item whose declaration link is some id k has, at id k,
\* a Declaration or RecordField item whose usage list holds the usage's own
\* id; and every id in the usage list of a Declaration or RecordField is
\* the id of a Usage item whose link is the id of that item.
ClaimC11 ==
    /\ \A i \in 1 .. Len(lin) :
           Linked(lin[i]) =>
               /\ lin[i].kind.decl \in ItemIds
               /\ HoldsUsages(ItemById(lin[i].kind.decl))
               /\ SeqHas(ItemById(lin[i].kind.decl).kind.usages, lin[i].id)
    /\ \A i \in 1 .. Len(lin) :
           HoldsUsages(lin[i]) =>
               \A u \in 1 .. Len(lin[i].kind.usages) :
                   /\ lin[i].kind.usages[u] \in ItemIds
                   /\ IsUsage(ItemById(lin[i].kind.usages[u]))
                   /\ ItemById(lin[i].kind.usages[u]).kind.decl = lin[i].id

\* the same consistency with the link read as the code writes it, one above
\* the id of the declaration
LinkedOneAbove ==
    /\ \A i \in 1 .. Len(lin) :
           Linked(lin[i]) =>
               /\ (lin[i].kind.decl - 1) \in ItemIds
               /\ HoldsUsages(ItemById(lin[i].kind.decl - 1))
               /\ SeqHas(ItemById(lin[i].kind.decl - 1).kind.usages, lin[i].id)
    /\ \A i \in 1 .. Len(lin) :
           HoldsUsages(lin[i]) =>
               \A u \in 1 .. Len(lin[i].kind.usages) :
                   /\ lin[i].kind.usages[u] \in ItemIds
                   /\ IsUsage(ItemById(lin[i].kind.usages[u]))
                   /\ ItemById(lin[i].kind.usages[u]).kind.decl = lin[i].id + 1

\* add_term that takes a term without a position for one at Original(0, 1)
Observe_unskipped(h, term, pos) ==
    add_term(Builder(lin, scope_map, hosts[h]), term,
             IF pos = PosNone THEN Original(0, 1) ELSE pos, Ty("Unif"))

\* the builder after add_term(term, pos, ty) on host h in the current state
Observe(h, term, pos) ==
    add_term(Builder(lin, scope_map, hosts[h]), term, pos, Ty("Unif"))

\* the positions of the terms that add_term does not skip
Resolved == Positions \ { PosNone }

\* the ids base + 1 .. base + n in increasing order
IdRun(base, n) == [i \in 1 .. n |-> base + i]

\* C12: observing a record literal with n fields appends one Record item
\* followed by n RecordField items, with n + 1 contiguous ids, the record
\* first; the field-id list of the Record item is the n field ids in field
\* order, and these RecordField items, and no others, name the id of the
\* Record item as their record.
TheoremC12 ==
    phase = "building" =>
        \A h \in 1 .. Len(hosts), term \in RecordTerms, pos \in Resolved :
            LET b == Observe(h, term, pos)
                base == Len(lin)
                n == Len(term.fields)
            IN  /\ ~b.panic
                /\ Len(b.lin) >= base + 1 + n
                /\ SubSeq(b.lin, 1, base) = lin
                /\ b.lin[base + 1].id = base
                /\ b.lin[base + 1].kind = Record(IdRun(base, n))
                /\ \A i \in 1 .. n :
                       /\ b.lin[base + 1 + i].id = base + i
                       /\ b.lin[base + 1 + i].kind.k = "RecordField"
                       /\ b.lin[base + 1 + i].kind.ident = term.fields[i].ident
                       /\ b.lin[base + 1 + i].kind.record = base
                /\ \A j \in (base + 1) .. Len(b.lin) :
                       /\ (b.lin[j].kind.k = "Record" /\ b.lin[j].id = base)
                              <=> j = base + 1
                       /\ (b.lin[j].kind.k = "RecordField"
                              /\ b.lin[j].kind.record = base)
                              <=> j \in (base + 2) .. (base + 1 + n)

\* a record literal of two fields, observed in an entered scope
WitnessC12 ==
    /\ phase = "building"
    /\ Len(lin) = 3
    /\ lin[1].kind.k = "Record"
    /\ lin[1].scope # <<>>
    /\ Len(lin[1].kind.fields) = 2
    /\ lin[2].kind.k = "RecordField"
    /\ lin[3].kind.k = "RecordField"

\* the ids of the Usage items that resolved to the declaration with id d:
\* the link the code stores is d + 1
ResolvedTo(d) ==
    { lin[i].id : i \in { j \in 1 .. Len(lin) :
                            IsUsage(lin[j]) /\ lin[j].kind.decl = d + 1 } }

Increasing(s) == \A i, j \in 1 .. Len(s) : i < j => s[i] < s[j]

\* C13: the usage list of a Declaration item holds exactly the ids of the
\* variable references that resolved to it, each once, in the order the
\* references were observed, which is the order of their ids; a name bound
\* by a let and referenced twice has a usage list of length 2.
TheoremC13 ==
    /\ \A i \in 1 .. Len(lin) :
           lin[i].kind.k = "Declaration" =>
               /\ Increasing(lin[i].kind.usages)
               /\ { lin[i].kind.usages[u] : u \in 1 .. Len(lin[i].kind.usages) }
                      = ResolvedTo(lin[i].id)
    /\ (/\ phase = "building"
        /\ Len(lin) = 3
        /\ lin[1].kind.k = "Declaration"
        /\ Linked(lin[2])
        /\ Linked(lin[3])
        /\ lin[2].scope = lin[3].scope) =>
           lin[1].kind.usages = <<1, 2>>

\* a declaration referenced twice, the second time from an entered scope
WitnessC13 ==
    /\ phase = "building"
    /\ Len(lin) = 3
    /\ lin[1].kind.k = "Declaration"
    /\ lin[1].kind.usages = <<1, 2>>
    /\ lin[2].scope = <<>>
    /\ lin[3].scope # <<>>

\* the terms add_term is handed in the model
Terms ==
    { TLet(ident) : ident \in Idents } \cup { TVar(ident) : ident \in Idents }
        \cup RecordTerms \cup MetaTerms \cup { TOther }

\* every item of the sequence items carries its index as id
IdIsIndex(items) == \A i \in 1 .. Len(items) : items[i].id = i - 1

\* C14: before linearize, after any sequence of add_term and scope calls
\* (batches of record fields, the recursion into nested records and the
\* usages emitted for contracts included), the id of every item is its
\* index in the sequence of the builder.
TheoremC14 ==
    phase = "building" =>
        /\ IdIsIndex(lin)
        /\ \A h \in 1 .. Len(hosts), term \in Terms, pos \in Resolved :
               LET b == Observe(h, term, pos)
               IN  ~b.panic /\ IdIsIndex(b.lin)

\* a record, its field and the nested record of the field, in this order
WitnessC14 ==
    /\ phase = "building"
    /\ Len(lin) = 3
    /\ lin[1].kind.k = "Record"
    /\ lin[2].kind.k = "RecordField"
    /\ lin[3].kind.k = "Record"
    /\ lin[3].id = 2

-----------------------------------------------------------------------------
(* Scopes: a parent host, its children and their siblings, observing let   *)
(* bindings and variables.                                                 *)

\* most AnalysisHost values alive at once in SpecScope
MaxScopes == 3

\* scope(scope_id) on host h with a ScopeId no scope has been given before
EnterFreshScope ==
    /\ phase = "building"
    /\ Len(hosts) < MaxScopes
    /\ \E h \in 1 .. Len(hosts) :
           hosts' = Append(hosts, scope(hosts[h], Len(hosts)))
    /\ UNCHANGED <<lin, scope_map, id_mapping, phase>>
    /\ UNCHANGED lexvars

NextScope ==
    \/ AddLet
    \/ AddVar
    \/ EnterFreshScope

SpecScope == InitLin /\ [][NextScope]_vars

IsPrefix(p, s) == Len(p) <= Len(s) /\ SubSeq(s, 1, Len(p)) = p

\* C15: the bindings that let-bindings observed in a child host insert are
\* never visible to lookups in the parent nor in a sibling entered later
\* from the same parent: a name resolves, in every host, to a declaration
\* made in the scope of the host or of one of its ancestors, every linked
\* Usage item was resolved that way, and a child starts with exactly the
\* bindings its parent has when it is entered.
TheoremC15 ==
    phase = "building" =>
        /\ \A h \in 1 .. Len(hosts), ident \in Idents :
               LET d == Environment_get(hosts[h].env, ident)
               IN  d # NoId =>
                       /\ d < Len(lin)
                       /\ lin[d + 1].kind.k = "Declaration"
                       /\ lin[d + 1].kind.ident = ident
                       /\ IsPrefix(lin[d + 1].scope, hosts[h].scope)
        /\ \A i \in 1 .. Len(lin) :
               \* the link is the id of the declaration plus one, which is
               \* the place of the declaration in lin
               Linked(lin[i]) =>
                   IsPrefix(lin[lin[i].kind.decl].scope, lin[i].scope)
        /\ \A h \in 1 .. Len(hosts), ident \in Idents :
               LET child == scope(hosts[h], Len(hosts))
                   b == add_term(Builder(lin, scope_map, child), TLet(ident),
                                 Original(0, 1), Ty("Unif"))
                   sibling == scope(hosts[h], Len(hosts) + 1)
               IN  /\ child.env = hosts[h].env
                   /\ b.host.env[ident] = Len(lin)
                   /\ sibling.env = hosts[h].env

\* a name bound in a child and then referenced, unbound, in the parent and
\* in a sibling entered after the binding
WitnessC15 ==
    /\ phase = "building"
    /\ Len(hosts) = 3
    /\ hosts[2].scope = <<1>>
    /\ hosts[3].scope = <<2>>
    /\ Len(lin) = 3
    /\ lin[1].kind.k = "Declaration"
    /\ lin[1].scope = <<1>>
    /\ hosts[2].env[lin[1].kind.ident] = 0
    /\ hosts[3].env[lin[1].kind.ident] = NoId
    /\ lin[2] = [lin[2] EXCEPT !.kind = Usage(NoId), !.scope = <<>>]
    /\ lin[3] = [lin[3] EXCEPT !.kind = Usage(NoId), !.scope = <<2>>]

-----------------------------------------------------------------------------
(* linearize.                                                              *)

\* C16: after linearize, id_mapping is defined on exactly the ids of the
\* items, is injective, and maps every id to the index at which the item
\* that carries the id sits in the sorted sequence.
TheoremC16 ==
    phase = "completed" =>
        /\ DOMAIN id_mapping = ItemIds
        /\ Cardinality(ItemIds) = Len(lin)
        /\ \A id \in DOMAIN id_mapping :
               /\ id_mapping[id] \in 0 .. (Len(lin) - 1)
               /\ lin[id_mapping[id] + 1].id = id
        /\ \A a, b \in DOMAIN id_mapping :
               id_mapping[a] = id_mapping[b] => a = b

\* a Completed linearization in which no item of three kept its index
WitnessC16 ==
    /\ phase = "completed"
    /\ Len(lin) = 3
    /\ \A id \in DOMAIN id_mapping : id_mapping[id] # id

\* every item of the sequence items carries a span
AllResolved(items) ==
    \A i \in 1 .. Len(items) : items[i].pos.tag \in { "Original", "Inherited" }

-----------------------------------------------------------------------------
(* add_term, branch by branch.                                             *)

\* C18: observing a variable reference appends exactly one Usage item.  If
\* the environment binds the name to declaration id d, the link is d + 1,
\* the item with id d is a Declaration (add_usage does not fault) and the
\* id of the new usage is appended to its usage list; if the name is
\* unbound the link is none and no existing item is modified.
TheoremC18 ==
    phase = "building" =>
        \A h \in 1 .. Len(hosts), ident \in Idents, pos \in Resolved :
            LET b == Observe(h, TVar(ident), pos)
                base == Len(lin)
                d == Environment_get(hosts[h].env, ident)
            IN  /\ ~b.panic
                /\ Len(b.lin) = base + 1
                /\ b.lin[base + 1].id = base
                /\ b.lin[base + 1].pos = pos
                /\ b.lin[base + 1].scope = hosts[h].scope
                /\ d = NoId =>
                       /\ b.lin[base + 1].kind = Usage(NoId)
                       /\ SubSeq(b.lin, 1, base) = lin
                /\ d # NoId =>
                       /\ b.lin[base + 1].kind = Usage(d + 1)
                       /\ d < base
                       /\ lin[d + 1].id = d
                       /\ lin[d + 1].kind.k = "Declaration"
                       /\ SubSeq(b.lin, 1, base) =
                              [lin EXCEPT ![d + 1].kind.usages = Append(@, base)]

\* an unbound reference, then the declaration, then a reference bound to it
WitnessC18 ==
    /\ phase = "building"
    /\ Len(lin) = 3
    /\ lin[1].kind = Usage(NoId)
    /\ lin[2].kind.k = "Declaration"
    /\ lin[2].kind.usages = <<2>>
    /\ lin[3].kind = Usage(2)

\* the annotation of a MetaValue term without its inner value
Stripped(term) == [term.meta EXCEPT !.value = FALSE]

Pending(h) == hosts[h].meta # NoMeta

\* C19 as claimed: once an annotation has been observed, it is attached to
\* the very next item that a later add_term appends to the linearization
\* and to no other item, and the pending slot is empty after that item.
ClaimC19 ==
    phase = "building" =>
        \A h \in 1 .. Len(hosts) :
            Pending(h) =>
                \A g \in 1 .. Len(hosts), term \in Terms, pos \in Resolved :
                    LET b == Observe(g, term, pos)
                        base == Len(lin)
                        after == IF g = h THEN b.host.meta ELSE hosts[h].meta
                    IN  Len(b.lin) > base =>
                            /\ b.lin[base + 1].meta = hosts[h].meta
                            /\ after = NoMeta

\* C19 as amended: the annotation observed on a host stays pending on that
\* host until the next add_term on it that is not skipped.  If that term is
\* not an annotation, the pending annotation is attached to the first item
\* the call appends and to no other item, old or new, and the slot is empty
\* afterwards; if it is an annotation, its stripped form replaces the
\* pending one, which is attached to no item, and the usages appended for
\* its contracts carry no metadata.  A host entered by scope() starts with
\* an empty slot, and an item appended with an empty slot carries none.
TheoremC19 ==
    phase = "building" =>
        \A h \in 1 .. Len(hosts), term \in Terms, pos \in Positions :
            LET b == Observe(h, term, pos)
                base == Len(lin)
                was == hosts[h].meta
            IN  /\ scope(hosts[h], 1).meta = NoMeta
                /\ \A i \in 1 .. base : b.lin[i].meta = lin[i].meta
                /\ pos = PosNone => (b.host.meta = was /\ b.lin = lin)
                /\ (pos # PosNone /\ term.t = "MetaValue") =>
                       /\ b.host.meta = Stripped(term)
                       /\ \A j \in (base + 1) .. Len(b.lin) :
                              b.lin[j].meta = NoMeta
                /\ (pos # PosNone /\ term.t # "MetaValue") =>
                       /\ Len(b.lin) > base
                       /\ b.lin[base + 1].meta = was
                       /\ b.host.meta = NoMeta
                       /\ \A j \in (base + 2) .. Len(b.lin) :
                              was # NoMeta => b.lin[j].meta # was

\* an annotation observed, then attached to the declaration observed next
\* on the same host, the slot being empty again
WitnessC19 ==
    /\ phase = "building"
    /\ Len(lin) = 2
    /\ lin[1].kind = Usage(NoId)
    /\ lin[1].meta = NoMeta
    /\ lin[2].kind.k = "Declaration"
    /\ lin[2].meta # NoMeta
    /\ lin[2].scope = lin[1].scope
    /\ \A h \in 1 .. Len(hosts) : ~Pending(h)

\* a record literal three levels deep: { x = { x = {} }, y = {} }
DeepRecord ==
    TRecord(<< Field("x", IdentPos,
                     TRecord(<< Field("x", IdentPos, TRecord(<<>>), BodyPos) >>),
                     BodyPos),
               Field("y", IdentPos, TRecord(<<>>), BodyPos) >>)

IsRecordLiteral(term) == term.t \in { "Record", "RecRecord" }

\* the kinds of the items of a record literal linearized depth-first: the
\* record, its fields, then the items of every field that Follows holds a
\* record literal, in field order
RECURSIVE Shape(_, _), ShapeOfFields(_, _, _)
Shape(term, all) ==
    <<"Record">> \o [i \in 1 .. Len(term.fields) |-> "RecordField"]
        \o ShapeOfFields(term.fields, 1, all)

\* all: every field that holds a record or recursive-record literal is
\* followed; otherwise only the fields add_term matches, a Record whose
\* identifier carries a position
ShapeOfFields(fields, i, all) ==
    IF i > Len(fields) THEN <<>>
    ELSE (IF IF all THEN IsRecordLiteral(fields[i].term)
             ELSE fields[i].term.t = "Record" /\ fields[i].ipos # NoPos
          THEN Shape(fields[i].term, all)
          ELSE <<>>) \o ShapeOfFields(fields, i + 1, all)

\* the kinds of the items that add_term(term, pos) on host h appends
Appended(h, term, pos) ==
    LET b == Observe(h, term, pos)
    IN  [j \in 1 .. (Len(b.lin) - Len(lin)) |-> b.lin[Len(lin) + j].kind.k]

\* C20: when a record or recursive-record literal is observed, after all
\* its field items the builder linearizes every field whose value is a
\* record literal or a recursive-record literal, depth-first.
ClaimC20 ==
    phase = "building" =>
        \A h \in 1 .. Len(hosts), term \in RecordTerms \cup { DeepRecord },
           pos \in Resolved :
            Appended(h, term, pos) = Shape(term, TRUE)

\* what add_term does: it recurses, depth-first, into the fields that hold
\* a Term::Record and whose identifier carries a position, and into no
\* field that holds a Term::RecRecord
RecursesIntoRecordOnly ==
    phase = "building" =>
        \A h \in 1 .. Len(hosts), term \in RecordTerms \cup { DeepRecord },
           pos \in Resolved :
            Appended(h, term, pos) = Shape(term, FALSE)

-----------------------------------------------------------------------------
(* The term without a position.                                            *)

\* C21: observing any term (let-binding, variable, record, annotation or
\* other) whose position is TermPos::None leaves the whole builder state
\* unchanged: no item is appended, no id is consumed, and the scope map,
\* the environment and the pending metadata of the host are as before.
TheoremC21 ==
    phase = "building" =>
        \A h \in 1 .. Len(hosts), term \in Terms \cup { DeepRecord } :
            LET b == Observe(h, term, PosNone)
            IN  /\ ~b.panic
                /\ b.lin = lin
                /\ id_gen(b) = Len(lin)
                /\ b.scope = scope_map
                /\ b.host.env = hosts[h].env
                /\ b.host.meta = hosts[h].meta
                /\ b.host.scope = hosts[h].scope

\* a builder with items, a bound name and a pending annotation on a host in
\* an entered scope: everything a skipped term could have disturbed
WitnessC21 ==
    /\ phase = "building"
    /\ Len(lin) >= 2
    /\ \E h \in 1 .. Len(hosts) :
           /\ Pending(h)
           /\ hosts[h].scope # <<>>
           /\ \E ident \in Idents : Environment_get(hosts[h].env, ident) # NoId

-----------------------------------------------------------------------------
(* linearize as a step: the builder before, the Completed value after.     *)

\* the step taken is linearize returning the Completed linearization
LinearizeStep == phase = "building" /\ phase' = "completed"

\* the item of the builder that the Completed item at index i came from
BuiltAs(i) == lin[lin'[i].id + 1]

\* C22: linearize only reorders the items and replaces their types: the
\* Completed sequence is a permutation of the items of the builder in which
\* every item keeps its id, position, kind (all link ids included), scope
\* path and metadata, items of equal (src_id, start) keep the order the
\* builder had them in, and the scope map is the one of the builder.
TheoremC22 ==
    [][LinearizeStep =>
          /\ Len(lin') = Len(lin)
          /\ { lin'[i].id : i \in 1 .. Len(lin') } = 0 .. (Len(lin) - 1)
          /\ \A i \in 1 .. Len(lin') :
                 /\ BuiltAs(i).id = lin'[i].id
                 /\ lin'[i].pos = BuiltAs(i).pos
                 /\ lin'[i].kind = BuiltAs(i).kind
                 /\ lin'[i].scope = BuiltAs(i).scope
                 /\ lin'[i].meta = BuiltAs(i).meta
                 /\ lin'[i].ty = to_type(BuiltAs(i).ty)
          /\ \A i, j \in 1 .. Len(lin') :
                 (i < j /\ sort_key(lin'[i]) = sort_key(lin'[j])) =>
                     lin'[i].id < lin'[j].id
          /\ scope_map' = scope_map
          /\ hosts' = hosts]_vars

\* a Completed linearization of three items that linearize reordered, two
\* of them of equal key, one a linked usage, one carrying metadata
WitnessC22 ==
    /\ phase = "completed"
    /\ Len(lin) = 3
    /\ \E i \in 1 .. 2 : lin[i].id > lin[i + 1].id
    /\ \E i \in 1 .. 2 : sort_key(lin[i]) = sort_key(lin[i + 1])
    /\ \E i \in 1 .. 3 : Linked(lin[i])
    /\ \E i \in 1 .. 3 : lin[i].meta # NoMeta

-----------------------------------------------------------------------------
(* The scope map of the builder.                                           *)

\* how often x occurs in the sequence s
Occurrences(s, x) == Cardinality({ i \in 1 .. Len(s) : s[i] = x })

\* the scope map smap holds the id of every item of items exactly once, in
\* the list of the scope path of the item, holds no other id, and every
\* list is in increasing order
ScopeMapExact(items, smap) ==
    /\ \A i \in 1 .. Len(items) :
           /\ items[i].scope \in DOMAIN smap
           /\ \A path \in DOMAIN smap :
                  Occurrences(smap[path], items[i].id) =
                      IF path = items[i].scope THEN 1 ELSE 0
    /\ \A path \in DOMAIN smap :
           /\ Increasing(smap[path])
           /\ \A k \in 1 .. Len(smap[path]) :
                  \E i \in 1 .. Len(items) : items[i].id = smap[path][k]

\* C26: after any sequence of add_term and scope calls, the scope map of
\* the builder holds every item id exactly once, in the list keyed by the
\* scope path of the item, and every list is in increasing id order.
TheoremC26 ==
    /\ ScopeMapExact(lin, scope_map)
    /\ phase = "building" =>
           \A h \in 1 .. Len(hosts), term \in Terms \cup { DeepRecord },
              pos \in Resolved :
               LET b == Observe(h, term, pos)
               IN  ScopeMapExact(b.lin, b.scope)

\* items pushed in two scopes in turn: the first and the third in the root
\* scope, the second in an entered one
WitnessC26 ==
    /\ phase = "building"
    /\ Len(lin) = 3
    /\ DOMAIN scope_map = { <<>>, <<1>> }
    /\ scope_map[<<>>] = <<0, 2>>
    /\ scope_map[<<1>>] = <<1>>

-----------------------------------------------------------------------------
(* The link of a usage against its own id.                                 *)

\* C27: for every Usage item whose declaration link is some id k, k is
\* strictly smaller than the id of the usage: the link names an item that
\* was in the builder when the usage was created, never the usage itself
\* nor a later or missing item.
ClaimC27 ==
    \A i \in 1 .. Len(lin) :
        Linked(lin[i]) =>
            /\ lin[i].kind.decl < lin[i].id
            /\ lin[i].kind.decl \in ItemIds

\* what the code keeps: the declaration the name resolved to, one below the
\* link, is older than the usage, so the link is at most the id of the
\* usage and is the id of an item
LinkAtMostOwnId ==
    \A i \in 1 .. Len(lin) :
        Linked(lin[i]) =>
            /\ lin[i].kind.decl - 1 < lin[i].id
            /\ lin[i].kind.decl - 1 >= 0
            /\ lin[i].kind.decl \in ItemIds

-----------------------------------------------------------------------------
(* The mode stack against the tokens emitted.                              *)

\* call k returned a token that opens a nesting: "{", "${", or the double
\* quote that opens a string
Opens(k) ==
    \/ IsTok(calls[k].ret, "LBrace")
    \/ IsTok(calls[k].ret, "DollarBrace")
    \/ IsTok(calls[k].ret, "DoubleQuote") /\ calls[k].pre.mode = ModeNormal

\* call k returned a token that closes a nesting: "}", or the double quote
\* that closes a string
Closes(k) ==
    \/ IsTok(calls[k].ret, "RBrace")
    \/ IsTok(calls[k].ret, "DoubleQuote") /\ calls[k].pre.mode = ModeStr

\* the opening tokens emitted so far that no closing token has matched
OpenDepth ==
    Cardinality({ k \in 1 .. NCalls : Opens(k) })
        - Cardinality({ k \in 1 .. NCalls : Closes(k) })

\* C23: in every reachable lexer state the mode stack is empty exactly when
\* lexing is outside any string, brace block or interpolation nesting, that
\* is exactly when every opening token emitted so far ("{", "${", opening
\* double quote) has been matched by its closing token.
ClaimC23 == (mode_stack = <<>>) <=> (OpenDepth = 0)

\* the same count without the "${" lexed in Normal mode, which pushes no mode
PushedDepth ==
    Cardinality({ k \in 1 .. NCalls :
                    Opens(k) /\ ~(/\ IsTok(calls[k].ret, "DollarBrace")
                                  /\ calls[k].pre.mode = ModeNormal) })
        - Cardinality({ k \in 1 .. NCalls : Closes(k) })

\* what the code keeps: the stack holds one mode for every opening token
\* that pushed one and is not closed, and one more while an interpolation
\* start is deferred
StackIsPushedDepth ==
    Len(mode_stack) =
        PushedDepth + (IF mode.tag = "DollarBrace" THEN 1 ELSE 0)

-----------------------------------------------------------------------------
(* The escaped interpolation marker.                                       *)

\* the characters from offset from up to offset i are plain string text: no
\* backslash, no double quote, no "$"
PlainUpTo(from, i) ==
    \A j \in from .. (i - 1) : input[j + 1] \notin { BSL, DQ, "$" }

\* call c scans string text that holds, after plain text, a backslash at
\* offset i followed by "$" and "{"
EscapedDollarAt(c, i) ==
    /\ c.pre.mode = ModeStr
    /\ c.pre.la <= i
    /\ i + 3 <= Len(input)
    /\ PlainUpTo(c.pre.la, i)
    /\ input[i + 1] = BSL
    /\ input[i + 2] = "$"
    /\ input[i + 3] = "{"

\* C24: inside a string literal a backslash-escaped "$" never starts an
\* interpolation: "\$" followed by "{" contributes the characters "$" and
\* "{" to the string-literal token, no interpolation-start token is emitted
\* for it and no mode is pushed for it.
TheoremC24 ==
    \A k \in 1 .. NCalls, i \in 0 .. Len(input) :
        EscapedDollarAt(calls[k], i) =>
            LET c == calls[k]
                n == i - c.pre.la
            IN  /\ c.ret.kind \in { "Ok", "Err" }
                /\ c.post.la >= i + 3
                /\ c.ret.kind = "Ok" =>
                       /\ c.ret.tok = "StrLiteral"
                       /\ Len(c.ret.text) >= n + 2
                       /\ SubSeq(c.ret.text, 1, n + 2) =
                              SubSeq(input, c.pre.la + 1, i) \o <<"$", "{">>
                \* an error is one met further on in the string
                /\ c.ret.kind = "Err" =>
                       \/ c.ret.tok = "UnexpectedEOF"
                       \/ c.ret.tok = "InvalidEscapeSequence" /\ c.ret.start > i + 2
                \* a mode pushed by the call is pushed for a later "${"
                /\ IF c.post.mode.tag = "DollarBrace"
                   THEN c.post.mode.index > i + 2
                   ELSE c.post.mode = ModeStr /\ c.post.stack = c.pre.stack
                /\ \A m \in 1 .. NCalls :
                       ~(IsTok(calls[m].ret, "DollarBrace")
                             /\ calls[m].ret.start \in i .. (i + 2))

\* the text "a\${x}" lexed to its end: the string literal a${x} between two
\* double quotes
WitnessC24 ==
    /\ input = ExEscapedDollar
    /\ NCalls >= 3
    /\ EscapedDollarAt(calls[2], 2)
    /\ IsTok(calls[2].ret, "StrLiteral")
    /\ calls[2].ret.text = <<"a", "$", "{", "x", "}">>
    /\ calls[3].ret = Ok(7, "DoubleQuote", <<>>, 8)
    /\ mode_stack = <<>>

-----------------------------------------------------------------------------
(* The assertions of next().                                               *)

\* C25: the assertions of next() never fail: in every reachable state of
\* the lexer, whenever the mode is Str or DollarBrace the mode stack is not
\* empty, and a DollarBrace mode is never stored on the mode stack.
TheoremC25 ==
    /\ mode.tag \in { "Str", "DollarBrace" } => mode_stack # <<>>
    /\ \A i \in 1 .. Len(mode_stack) : mode_stack[i].tag # "DollarBrace"
    /\ ret # Panic("assert")
    /\ \A k \in 1 .. NCalls : calls[k].ret # Panic("assert")

\* both assertions have been passed: a deferred interpolation start was
\* returned, and a closing double quote was lexed in Str mode with two
\* modes or more on the stack
WitnessC25 ==
    /\ NCalls >= 5
    /\ \E k \in 1 .. NCalls : calls[k].pre.mode.tag = "DollarBrace"
    /\ calls[NCalls].pre.mode = ModeStr
    /\ IsTok(calls[NCalls].ret, "DoubleQuote")
    /\ Len(calls[NCalls].pre.stack) >= 2

-----------------------------------------------------------------------------
(* Termination of the token sequence.                                      *)

\* call c made progress: it consumed a character or left DollarBrace mode
Progressed(c) ==
    \/ c.post.la > c.pre.la
    \/ c.pre.mode.tag = "DollarBrace" /\ c.post.mode.tag # "DollarBrace"

\* C28: repeatedly calling next() reaches the end of the sequence after
\* finitely many calls: every call returns, the calls that yield a token or
\* an error consume at least one character or leave the one-shot
\* DollarBrace mode (so they are at most two for every character of the
\* text), and once None has been returned it is returned on every later
\* call.
ClaimC28 ==
    /\ \A k \in 1 .. NCalls :
           /\ calls[k].ret.kind \in { "Ok", "Err", "None" }
           /\ calls[k].ret.kind \in { "Ok", "Err" } => Progressed(calls[k])
           /\ calls[k].ret.kind = "None" =>
                  \A m \in k .. NCalls : calls[m].ret.kind = "None"
    /\ NCalls - ended <= 2 * Len(input)

\* what the code keeps: the calls that return make progress and None is
\* final, and the only call that does not return is the one that panics on
\* the unwrap() of num_literal
ProgressUnlessPanic ==
    /\ \A k \in 1 .. NCalls :
           /\ calls[k].ret.kind \in { "Ok", "Err", "None" }
                  \/ calls[k].ret = Panic("unwrap")
           /\ calls[k].ret.kind \in { "Ok", "Err" } => Progressed(calls[k])
           /\ calls[k].ret.kind = "None" =>
                  /\ calls[k].post.la = Len(input)
                  /\ calls[k].post.mode = calls[k].pre.mode
                  /\ calls[k].post.stack = calls[k].pre.stack
                  /\ \A m \in k .. NCalls : calls[m].ret.kind = "None"
    /\ NCalls - ended <= 2 * Len(input)
    /\ look_ahead <= Len(input)
====
